---- MODULE Spec2Model ----
(***************************************************************************)
(* LocustDB: the codec algebra (src/src/mem_store/codec.rs) and the batched *)
(* query evaluator (src/src/query_engine.rs).                               *)
(*                                                                          *)
(* Spec      : a codec is constructed, optionally wrapped by with_lz4 and   *)
(*             renamed, and decode / ensure_property / ensure_fixed_width   *)
(*             are applied to it.                                           *)
(* QuerySpec : run_batches drives Query::run over a list of batches, one    *)
(*             outer-loop iteration of the row loops per step.              *)
(***************************************************************************)
EXTENDS Integers, Sequences, FiniteSets, TLC

VARIABLES
    codec,          \* the Codec under test (record of its fields)
    plan,           \* the input QueryPlan handed to decode / ensure_fixed_width
    origin,         \* constructor the codec came from
    lz4s,           \* number of with_lz4 applications so far
    last,           \* the operation that acted last
    out,            \* what that operation returned
    query,          \* the Query being run
    batches,        \* the batch list handed to run_batches
    pc,             \* position inside run_batches / run
    bi,             \* number of batches run_batches has started
    source,         \* efficient_source of the current run: the selected columns
    loop,           \* locals of the row loop: coliter, rows_touched, result, groups
    combined,       \* combined_rows and combined_stats of run_batches
    runs,           \* the QueryResult each call of run returned, in call order
    final           \* the QueryResult run_batches returned

cvars == <<codec, plan, origin, lz4s, last, out>>
qvars == <<query, batches, pc, bi, source, loop, combined, runs, final>>
vars == <<codec, plan, origin, lz4s, last, out,
          query, batches, pc, bi, source, loop, combined, runs, final>>

----------------------------------------------------------------------------
(* Bounds of the codec model *)

MaxOps == 3         \* longest op sequence enumerated for Codec::new
MaxLz4 == 2         \* with_lz4 applications per behaviour
IntBits == 8        \* width modelled for the i64 arithmetic of encode_int

EncodingTypes == {"U8", "U16"}     \* types handed to the constructors
OpTypes == {"U16"}                 \* types inside enumerated op sequences
Offsets == {0, 1}
DecodedLengths == {20}
Sections == {1, 2}
ColumnNames == {"COLUMN_UNSPECIFIED", "url"}
Properties == {"summation", "order", "positive", "elementwise"}

----------------------------------------------------------------------------
(* CodecOp: a tagged tuple, the tag first *)

Add(t, x) == <<"Add", t, x>>
Delta(t) == <<"Delta", t>>
ToI64(t) == <<"ToI64", t>>
PushDataSection(i) == <<"PushDataSection", i>>
DictLookup(t) == <<"DictLookup", t>>
LZ4(t, n) == <<"LZ4", t, n>>
UnpackStrings == <<"UnpackStrings">>
Unknown == <<"Unknown">>

Tag(op) == op[1]

Last(s) == s[Len(s)]
Front(s) == SubSeq(s, 1, Len(s) - 1)
RECURSIVE Reverse(_)
Reverse(s) == IF s = <<>> THEN <<>> ELSE <<Last(s)>> \o Reverse(Front(s))

\* CodecOp::input_type; "panic" where the code panics
input_type(op) ==
    CASE Tag(op) = "Add" -> op[2]
      [] Tag(op) = "Delta" -> op[2]
      [] Tag(op) = "ToI64" -> op[2]
      [] Tag(op) = "DictLookup" -> op[2]
      [] Tag(op) = "LZ4" -> "U8"
      [] Tag(op) = "UnpackStrings" -> "U8"
      [] OTHER -> "panic"

\* CodecOp::output_type; "panic" where the code panics
output_type(op) ==
    CASE Tag(op) = "Add" -> "Integer"
      [] Tag(op) = "Delta" -> "Integer"
      [] Tag(op) = "ToI64" -> "Integer"
      [] Tag(op) = "DictLookup" -> "String"
      [] Tag(op) = "LZ4" -> "Integer"
      [] Tag(op) = "UnpackStrings" -> "String"
      [] OTHER -> "panic"

op_is_summation_preserving(op) ==
    CASE Tag(op) = "Add" -> op[3] = 0
      [] Tag(op) = "Delta" -> FALSE
      [] Tag(op) = "ToI64" -> TRUE
      [] Tag(op) = "PushDataSection" -> TRUE
      [] Tag(op) = "DictLookup" -> FALSE
      [] Tag(op) = "LZ4" -> FALSE
      [] Tag(op) = "UnpackStrings" -> FALSE

op_is_order_preserving(op) ==
    CASE Tag(op) = "Add" -> TRUE
      [] Tag(op) = "Delta" -> FALSE
      [] Tag(op) = "ToI64" -> TRUE
      [] Tag(op) = "PushDataSection" -> TRUE
      [] Tag(op) = "DictLookup" -> TRUE
      [] Tag(op) = "LZ4" -> FALSE
      [] Tag(op) = "UnpackStrings" -> FALSE

op_is_positive_integer(op) ==
    CASE Tag(op) = "Add" -> TRUE
      [] Tag(op) = "Delta" -> FALSE
      [] Tag(op) = "ToI64" -> TRUE
      [] Tag(op) = "PushDataSection" -> TRUE
      [] Tag(op) = "DictLookup" -> TRUE
      [] Tag(op) = "LZ4" -> FALSE
      [] Tag(op) = "UnpackStrings" -> FALSE

op_is_elementwise_decodable(op) ==
    CASE Tag(op) = "Add" -> TRUE
      [] Tag(op) = "Delta" -> FALSE
      [] Tag(op) = "ToI64" -> TRUE
      [] Tag(op) = "PushDataSection" -> TRUE
      [] Tag(op) = "DictLookup" -> TRUE
      [] Tag(op) = "LZ4" -> FALSE
      [] Tag(op) = "UnpackStrings" -> FALSE

\* the fn(&CodecOp) -> bool argument of has_property / ensure_property
Holds(p, op) ==
    CASE p = "summation" -> op_is_summation_preserving(op)
      [] p = "order" -> op_is_order_preserving(op)
      [] p = "positive" -> op_is_positive_integer(op)
      [] p = "elementwise" -> op_is_elementwise_decodable(op)

arg_count(op) ==
    CASE Tag(op) = "Add" -> 1
      [] Tag(op) = "Delta" -> 1
      [] Tag(op) = "ToI64" -> 1
      [] Tag(op) = "PushDataSection" -> 0
      [] Tag(op) = "DictLookup" -> 3
      [] Tag(op) = "LZ4" -> 1
      [] Tag(op) = "UnpackStrings" -> 1

----------------------------------------------------------------------------
(* The property stack walks *)

\* Codec::pop, applied n times (the `for _ in ..` loops around it)
RECURSIVE pop(_), PopTimes(_, _)
pop(ops) ==
    IF ops = <<>> THEN ops
    ELSE PopTimes(Front(ops), arg_count(Last(ops)))
PopTimes(ops, n) == IF n <= 0 THEN ops ELSE PopTimes(pop(ops), n - 1)

\* has_property that tests every op, the operand subtrees included
has_property_EveryOp(ops, p) == \A i \in 1..Len(ops) : Holds(p, ops[i])

RECURSIVE has_property(_, _)
has_property(ops, p) ==
    IF ops = <<>> THEN TRUE
    ELSE IF ~Holds(p, Last(ops)) THEN FALSE
    ELSE has_property(PopTimes(Front(ops), arg_count(Last(ops)) - 1), p)

\* Codec::pop_push on the pair (ops, push), applied n times
RECURSIVE pop_push(_), PopPushTimes(_, _)
pop_push(s) ==
    IF s.ops = <<>> THEN s
    ELSE PopPushTimes([ops |-> Front(s.ops), push |-> Append(s.push, Last(s.ops))],
                      arg_count(Last(s.ops)))
PopPushTimes(s, n) == IF n <= 0 THEN s ELSE PopPushTimes(pop_push(s), n - 1)

\* the while loop of ensure_property from the state (ops, property_preserving);
\* the result is the returned pair, named by position
RECURSIVE EnsureLoop(_, _)
EnsureLoop(s, p) ==
    IF s.ops = <<>> THEN [remaining |-> s.ops, preserving |-> s.push]
    ELSE IF ~Holds(p, Last(s.ops))
         THEN [remaining |-> s.ops, preserving |-> Reverse(s.push)]
    ELSE EnsureLoop(PopPushTimes([ops |-> Front(s.ops),
                                  push |-> Append(s.push, Last(s.ops))],
                                 arg_count(Last(s.ops)) - 1), p)

ensure_property(ops, p) == EnsureLoop([ops |-> ops, push |-> <<>>], p)

----------------------------------------------------------------------------
(* Codec construction *)

BasicTypes == {"Integer", "String"}

\* BasicType::to_encoded
to_encoded(t) == IF t = "String" THEN "Str" ELSE "I64"

NonSectionIndexes(ops) == {i \in 1..Len(ops) : Tag(ops[i]) # "PushDataSection"}
FirstNonSection(ops) ==
    ops[CHOOSE i \in NonSectionIndexes(ops) : \A j \in NonSectionIndexes(ops) : i <= j]

\* the unwrap() and the type panics of Codec::new
NewPanics(ops) ==
    \/ NonSectionIndexes(ops) = {}
    \/ input_type(FirstNonSection(ops)) = "panic"
    \/ output_type(Last(ops)) = "panic"

new(ops) ==
    [ops |-> ops,
     column_name |-> "COLUMN_UNSPECIFIED",
     encoding_type |-> input_type(FirstNonSection(ops)),
     decoded_type |-> output_type(Last(ops)),
     is_summation_preserving |-> has_property(ops, "summation"),
     is_order_preserving |-> has_property(ops, "order"),
     is_positive_integer |-> has_property(ops, "positive"),
     is_fixed_width |-> has_property(ops, "elementwise")]

identity(t) ==
    [ops |-> <<>>,
     column_name |-> "COLUMN_UNSPECIFIED",
     encoding_type |-> to_encoded(t),
     decoded_type |-> t,
     is_summation_preserving |-> TRUE,
     is_order_preserving |-> TRUE,
     is_positive_integer |-> TRUE,
     is_fixed_width |-> TRUE]

integer_offset(t, offset) == new(<<Add(t, offset)>>)
integer_cast(t) == new(<<ToI64(t)>>)
lz4(t, decoded_length) == new(<<LZ4(t, decoded_length)>>)

set_column_name(c, name) == [c EXCEPT !.column_name = name]

with_lz4_ops(c, decoded_length) == <<LZ4(c.encoding_type, decoded_length)>> \o c.ops
with_lz4(c, decoded_length) ==
    set_column_name(new(with_lz4_ops(c, decoded_length)), c.column_name)

----------------------------------------------------------------------------
(* Lowering to a QueryPlan: decode, decode_ops *)

Constant(v, immediate) == <<"Constant", v, immediate>>
ReadColumnSection(name, i) == <<"ReadColumnSection", name, i, "None">>

\* DecodeOp with a DictLookup arm that takes dict_data and dict_indices off
\* the stack and only reads the indices plan
DecodeOp_DictPeeksIndices(column_name, stack, op) ==
    LET n == Len(stack)
        need == CASE Tag(op) = "PushDataSection" -> 0
                  [] Tag(op) = "DictLookup" -> 2
                  [] Tag(op) = "Unknown" -> 0
                  [] OTHER -> 1
        rest == SubSeq(stack, 1, n - need)
        node == CASE Tag(op) = "Add" ->
                       <<"AddVS", op[2], stack[n], <<"Constant", <<"Int", op[3]>>, TRUE>>>>
                  [] Tag(op) = "Delta" -> <<"DeltaDecode", stack[n], op[2]>>
                  [] Tag(op) = "ToI64" -> <<"Cast", stack[n], op[2], "I64">>
                  [] Tag(op) = "PushDataSection" ->
                       <<"ReadColumnSection", column_name, op[2], "None">>
                  [] Tag(op) = "DictLookup" ->
                       <<"DictLookup", stack[n - 2], op[2], stack[n - 1], stack[n]>>
                  [] Tag(op) = "LZ4" -> <<"LZ4Decode", stack[n], op[3], op[2]>>
                  [] Tag(op) = "UnpackStrings" -> <<"UnpackStrings", stack[n]>>
    IN  IF Tag(op) = "Unknown" \/ n < need + (IF Tag(op) = "DictLookup" THEN 1 ELSE 0)
        THEN [abort |-> TRUE, stack |-> stack, popped |-> 0]
        ELSE [abort |-> FALSE, stack |-> Append(rest, node), popped |-> need]

\* one iteration of the for loop of decode_ops: the match arm of op, then
\* stack.push(plan); pop on an empty stack is the unwrap() panic
DecodeOp(column_name, stack, op) ==
    LET n == Len(stack)
        need == CASE Tag(op) = "PushDataSection" -> 0
                  [] Tag(op) = "DictLookup" -> 3
                  [] Tag(op) = "Unknown" -> 0
                  [] OTHER -> 1
        rest == SubSeq(stack, 1, n - need)
        node == CASE Tag(op) = "Add" ->
                       <<"AddVS", op[2], stack[n], Constant(<<"Int", op[3]>>, TRUE)>>
                  [] Tag(op) = "Delta" -> <<"DeltaDecode", stack[n], op[2]>>
                  [] Tag(op) = "ToI64" -> <<"Cast", stack[n], op[2], "I64">>
                  [] Tag(op) = "PushDataSection" -> ReadColumnSection(column_name, op[2])
                  [] Tag(op) = "DictLookup" ->
                       <<"DictLookup", stack[n - 2], op[2], stack[n - 1], stack[n]>>
                  [] Tag(op) = "LZ4" -> <<"LZ4Decode", stack[n], op[3], op[2]>>
                  [] Tag(op) = "UnpackStrings" -> <<"UnpackStrings", stack[n]>>
    IN  IF Tag(op) = "Unknown" \/ n < need
        THEN [abort |-> TRUE, stack |-> stack, popped |-> 0]
        ELSE [abort |-> FALSE, stack |-> Append(rest, node), popped |-> need]

\* the for loop of decode_ops from stack = vec![plan]; pops[i] is the number of
\* plans op i took off the stack
RECURSIVE DecodeLoop(_, _, _)
DecodeLoop(column_name, ops, r) ==
    IF ops = <<>> \/ r.abort THEN r
    ELSE LET d == DecodeOp(column_name, r.stack, Head(ops))
         IN  DecodeLoop(column_name, Tail(ops),
                        [abort |-> d.abort, stack |-> d.stack,
                         pops |-> IF d.abort THEN r.pops ELSE Append(r.pops, d.popped)])

DecodeRun(column_name, ops, input) ==
    DecodeLoop(column_name, ops, [abort |-> FALSE, stack |-> <<input>>, pops |-> <<>>])

\* decode_ops: the loop, assert_eq!(stack.len(), 1), stack.pop().unwrap()
decode_ops(column_name, ops, input) ==
    LET r == DecodeRun(column_name, ops, input)
    IN  IF r.abort \/ Len(r.stack) # 1
        THEN [abort |-> TRUE, plan |-> "none"]
        ELSE [abort |-> FALSE, plan |-> r.stack[1]]

decode(c, input) == decode_ops(c.column_name, c.ops, input)

\* i64 scaled to IntBits bits: the representable range and two's-complement
\* wrap-around of a difference that leaves it.
I64Min == 0 - 2^(IntBits - 1)
I64Max == 2^(IntBits - 1) - 1
I64 == I64Min..I64Max
Wrap(v) == ((v - I64Min) % 2^IntBits) + I64Min

\* `x - y` on i64: with overflow checks the subtraction panics when the
\* difference leaves the range, without them it wraps.
encode_int_AddsOffset(c, x, overflow_checks) ==
    IF c.ops = <<>> THEN [abort |-> TRUE, val |-> "none"]
    ELSE IF Tag(c.ops[1]) = "Add"
    THEN IF Len(c.ops) # 1 THEN [abort |-> TRUE, val |-> "none"]
         ELSE IF (x + c.ops[1][3]) \notin I64 /\ overflow_checks
         THEN [abort |-> TRUE, val |-> "none"]
         ELSE [abort |-> FALSE, val |-> <<"Int", Wrap(x + c.ops[1][3])>>]
    ELSE IF Tag(c.ops[1]) = "ToI64"
    THEN IF Len(c.ops) # 1 THEN [abort |-> TRUE, val |-> "none"]
         ELSE [abort |-> FALSE, val |-> <<"Int", x>>]
    ELSE [abort |-> TRUE, val |-> "none"]

encode_int(c, x, overflow_checks) ==
    IF c.ops = <<>> THEN [abort |-> TRUE, val |-> "none"]
    ELSE IF Tag(c.ops[1]) = "Add"
    THEN IF Len(c.ops) # 1 THEN [abort |-> TRUE, val |-> "none"]
         ELSE IF (x - c.ops[1][3]) \notin I64 /\ overflow_checks
         THEN [abort |-> TRUE, val |-> "none"]
         ELSE [abort |-> FALSE, val |-> <<"Int", Wrap(x - c.ops[1][3])>>]
    ELSE IF Tag(c.ops[1]) = "ToI64"
    THEN IF Len(c.ops) # 1 THEN [abort |-> TRUE, val |-> "none"]
         ELSE [abort |-> FALSE, val |-> <<"Int", x>>]
    ELSE [abort |-> TRUE, val |-> "none"]

ensure_fixed_width(c, input) ==
    LET split == ensure_property(c.ops, "elementwise")
        fixed_width == split.remaining
        rest == split.preserving
        partial == decode_ops(c.column_name, fixed_width, input)
    IN  IF rest # <<>> /\ NewPanics(rest)
        THEN [abort |-> TRUE, codec |-> "none", plan |-> "none"]
        ELSE IF partial.abort
        THEN [abort |-> TRUE, codec |-> "none", plan |-> "none"]
        ELSE [abort |-> FALSE,
              codec |-> set_column_name(IF rest = <<>> THEN identity(c.decoded_type)
                                        ELSE new(rest), c.column_name),
              plan |-> partial.plan]

----------------------------------------------------------------------------
(* The codecs the model constructs *)

OpAlphabet ==
    {Add(t, x) : t \in OpTypes, x \in Offsets}
    \cup {Delta(t) : t \in OpTypes}
    \cup {ToI64(t) : t \in OpTypes}
    \cup {PushDataSection(i) : i \in Sections}
    \cup {DictLookup(t) : t \in OpTypes}
    \cup {LZ4(t, n) : t \in OpTypes, n \in DecodedLengths}
    \cup {UnpackStrings}

\* a well-formed postfix program: Codec::new accepts it and lowering it on one
\* input plan leaves one plan
WellFormed(ops) ==
    /\ ~NewPanics(ops)
    /\ LET r == DecodeRun("COLUMN_UNSPECIFIED", ops, <<"Input">>)
       IN  ~r.abort /\ Len(r.stack) = 1

CanonicalDict(t) == <<PushDataSection(1), PushDataSection(2), DictLookup(t)>>

\* tests::test_ensure_property and the LZ4-wrapped dictionary shapes
SeedOps ==
    {<<LZ4("U16", 20), PushDataSection(1), LZ4("U64", 1), PushDataSection(2),
       LZ4("U8", 3), DictLookup("U16")>>,
     <<ToI64("U8"), PushDataSection(1), PushDataSection(2), DictLookup("U16")>>,
     <<LZ4("U16", 20), PushDataSection(1), PushDataSection(2), DictLookup("U16"),
       UnpackStrings>>,
     <<PushDataSection(1), LZ4("U64", 1), PushDataSection(2), LZ4("U8", 3),
       DictLookup("U16")>>}

EnumeratedOps ==
    {ops \in UNION {[1..n -> OpAlphabet] : n \in 1..MaxOps} : WellFormed(ops)}

\* Offsets and arguments at the ends and the middle of the i64 range.
EncodeInputs == {I64Min, 0 - 1, 0, 1, I64Max}

Constructed ==
    {[c |-> integer_offset(t, x), o |-> "integer_offset"] :
         t \in EncodingTypes, x \in Offsets \cup EncodeInputs}
    \cup {[c |-> integer_cast(t), o |-> "integer_cast"] : t \in EncodingTypes}
    \cup {[c |-> lz4(t, n), o |-> "lz4"] : t \in EncodingTypes, n \in DecodedLengths}
    \cup {[c |-> identity(t), o |-> "identity"] : t \in BasicTypes}
    \cup {[c |-> new(CanonicalDict(t)), o |-> "new_dict"] : t \in EncodingTypes}
    \cup {[c |-> new(ops), o |-> "new"] : ops \in EnumeratedOps \cup SeedOps}

InputPlans == {ReadColumnSection("url", 0), Constant(<<"Int", 7>>, TRUE)}

NoOut == [op |-> "none"]

----------------------------------------------------------------------------
(* Codec operations as actions *)

CodecInit ==
    /\ \E k \in Constructed : codec = k.c /\ origin = k.o
    /\ plan \in InputPlans
    /\ lz4s = 0
    /\ last = "construct"
    /\ out = NoOut
    /\ query = "none" /\ batches = <<>> /\ pc = "none" /\ bi = 0
    /\ source = <<>> /\ loop = "none" /\ combined = "none"
    /\ runs = <<>> /\ final = "none"

SetColumnName ==
    /\ last = "construct"
    /\ \E name \in ColumnNames \ {codec.column_name} :
           codec' = set_column_name(codec, name)
    /\ last' = "set_column_name"
    /\ out' = NoOut
    /\ UNCHANGED <<plan, origin, lz4s>>
    /\ UNCHANGED qvars

WithLz4 ==
    /\ lz4s < MaxLz4
    /\ \E n \in DecodedLengths :
           /\ ~NewPanics(with_lz4_ops(codec, n))
           /\ codec' = with_lz4(codec, n)
    /\ lz4s' = lz4s + 1
    /\ last' = "with_lz4"
    /\ out' = NoOut
    /\ UNCHANGED <<plan, origin>>
    /\ UNCHANGED qvars

Decode ==
    /\ last # "decode"
    /\ last' = "decode"
    /\ out' = [op |-> "decode",
               run |-> DecodeRun(codec.column_name, codec.ops, plan),
               res |-> decode(codec, plan)]
    /\ UNCHANGED <<codec, plan, origin, lz4s>>
    /\ UNCHANGED qvars

EnsureProperty ==
    /\ \E p \in Properties :
           out' = [op |-> "ensure_property", p |-> p,
                   res |-> ensure_property(codec.ops, p)]
    /\ last' = "ensure_property"
    /\ UNCHANGED <<codec, plan, origin, lz4s>>
    /\ UNCHANGED qvars

EnsureFixedWidth ==
    /\ last # "ensure_fixed_width"
    /\ last' = "ensure_fixed_width"
    /\ out' = [op |-> "ensure_fixed_width", res |-> ensure_fixed_width(codec, plan)]
    /\ UNCHANGED <<codec, plan, origin, lz4s>>
    /\ UNCHANGED qvars

EncodeInt ==
    /\ \E x \in EncodeInputs, overflow_checks \in BOOLEAN :
           out' = [op |-> "encode_int", x |-> x,
                   res |-> encode_int(codec, x, overflow_checks)]
    /\ last' = "encode_int"
    /\ UNCHANGED <<codec, plan, origin, lz4s>>
    /\ UNCHANGED qvars

CodecNext ==
    \/ EncodeInt
    \/ SetColumnName
    \/ WithLz4
    \/ Decode
    \/ EnsureProperty
    \/ EnsureFixedWidth

Spec == CodecInit /\ [][CodecNext]_vars

----------------------------------------------------------------------------
(* Claims about the codec algebra, checked under Spec *)

\* C1: ensure_property(p) returns (remaining, preserving) with
\* remaining ++ preserving = c.ops in program order, has_property(p) true of
\* preserving alone, and the last op of a non-empty remaining failing p; both
\* when the walk stops at a failing op and when it consumes every op.
C1_SplitIsPartition ==
    last = "ensure_property" =>
        /\ out.res.remaining \o out.res.preserving = codec.ops
        /\ has_property(out.res.preserving, out.p)
        /\ out.res.remaining # <<>> => ~Holds(out.p, Last(out.res.remaining))

\* C2: on a codec with a non-empty op sequence ensure_fixed_width completes
\* and the residual codec decodes the partial plan to the plan the whole codec
\* decodes the input to.
C2_ResidualCompletesDecode ==
    (last = "ensure_fixed_width" /\ codec.ops # <<>>) =>
        /\ ~out.res.abort
        /\ decode(out.res.codec, out.res.plan) = decode(codec, plan)

RECURSIVE SumSeq(_)
SumSeq(s) == IF s = <<>> THEN 0 ELSE Head(s) + SumSeq(Tail(s))

FromNamedConstructor ==
    origin \in {"integer_offset", "integer_cast", "lz4", "identity", "new_dict"}

\* C10: decode of a codec from integer_offset, integer_cast, lz4, identity or
\* new on the canonical dictionary sequence, wrapped by with_lz4 any number
\* of times, never pops an empty stack, ends with exactly one plan on the
\* stack, and each op pops its arg_count plans and pushes one.
C10_DecodeLeavesOnePlan ==
    (last = "decode" /\ FromNamedConstructor) =>
        /\ ~out.run.abort
        /\ Len(out.run.stack) = 1
        /\ ~out.res.abort
        /\ Len(out.run.pops) = Len(codec.ops)
        /\ \A i \in 1..Len(codec.ops) : out.run.pops[i] = arg_count(codec.ops[i])
        /\ Len(out.run.stack) = 1 + Len(codec.ops) - SumSeq(out.run.pops)

C10_Witness ==
    /\ last = "decode"
    /\ origin = "new_dict"
    /\ lz4s >= 1
    /\ Len(codec.ops) = 3 + lz4s
    /\ ~out.res.abort
    /\ out.res.plan[1] = "DictLookup"

\* the cached flag of property p
Flag(c, p) ==
    CASE p = "summation" -> c.is_summation_preserving
      [] p = "order" -> c.is_order_preserving
      [] p = "positive" -> c.is_positive_integer
      [] p = "elementwise" -> c.is_fixed_width

\* the operator tree of an op sequence: what decode builds over a marked input
InputLeaf == <<"Input">>
OperatorTree(ops) == DecodeRun("COLUMN_UNSPECIFIED", ops, InputLeaf).stack[1]

\* the per-op property, read off the plan node the op lowers to
NodeHolds(p, node) ==
    CASE node[1] = "AddVS" -> (p = "summation" => node[4][2][2] = 0)
      [] node[1] = "Cast" -> TRUE
      [] node[1] = "ReadColumnSection" -> TRUE
      [] node[1] = "DictLookup" -> p # "summation"
      [] OTHER -> FALSE

\* the first operand of a plan node (DictLookup: the indices)
FirstOperand(node) == IF node[1] = "AddVS" THEN node[3] ELSE node[2]

\* p holds of the root, of its first operand, and so on down to the input
RECURSIVE ChainHolds(_, _)
ChainHolds(p, node) ==
    IF node = InputLeaf \/ node[1] = "ReadColumnSection" THEN TRUE
    ELSE NodeHolds(p, node) /\ ChainHolds(p, FirstOperand(node))

FlagsFollowChain(c) ==
    \A p \in Properties :
        /\ Flag(c, p) = has_property(c.ops, p)
        /\ Flag(c, p) = ChainHolds(p, OperatorTree(c.ops))

\* C11: for a well-formed codec built through Codec::new, with_lz4 results
\* and the residual codec of ensure_fixed_width included, each cached flag
\* equals a fresh has_property walk, which is true exactly when the per-op
\* predicate holds of every op on the leftmost-operand chain of the operator
\* tree; ops in the other operand subtrees do not change it.
C11_FlagsFollowLeftmostChain ==
    /\ (codec.ops # <<>> /\ WellFormed(codec.ops)) => FlagsFollowChain(codec)
    /\ (/\ last = "ensure_fixed_width"
        /\ ~out.res.abort
        /\ out.res.codec.ops # <<>>
        /\ WellFormed(out.res.codec.ops)) => FlagsFollowChain(out.res.codec)

\* a dictionary codec with LZ4 on both dictionary sections, wrapped by with_lz4:
\* order-preserving before the wrap is the flag the section LZ4s left alone
C11_Witness ==
    /\ last = "ensure_fixed_width"
    /\ lz4s = 1
    /\ Len(codec.ops) = 6
    /\ Tag(codec.ops[3]) = "LZ4" /\ Tag(codec.ops[6]) = "DictLookup"
    /\ ~codec.is_order_preserving
    /\ ~out.res.abort
    /\ Len(out.res.codec.ops) = 5
    /\ out.res.codec.is_order_preserving
    /\ out.res.codec.is_fixed_width
    /\ ~out.res.codec.is_summation_preserving

----------------------------------------------------------------------------
(* encode_int *)

SingleAdd(c) == Len(c.ops) = 1 /\ Tag(c.ops[1]) = "Add"
SingleToI64(c) == Len(c.ops) = 1 /\ Tag(c.ops[1]) = "ToI64"
AddOffset(c) == c.ops[1][3]

\* C12 as stated: for every codec and ALL i64 x and k, encode_int on a codec
\* whose ops are exactly one Add(t, k) returns Int(x - k), on exactly one
\* ToI64(t) returns Int(x), and on any other op sequence aborts.
C12_EncodeIntAllI64 ==
    last = "encode_int" =>
        IF SingleAdd(codec)
        THEN ~out.res.abort /\ out.res.val = <<"Int", out.x - AddOffset(codec)>>
        ELSE IF SingleToI64(codec)
        THEN ~out.res.abort /\ out.res.val = <<"Int", out.x>>
        ELSE out.res.abort

\* C12 amended: encode_int on exactly one Add(t, k) returns Int(x - k), and
\* adding k back gives x, whenever x - k is representable in i64; when it is
\* not, the call either aborts or returns the wrapped difference. On exactly
\* one ToI64(t) it returns Int(x); on any other op sequence it aborts.
C12_EncodeIntInRange ==
    last = "encode_int" =>
        IF SingleAdd(codec)
        THEN IF (out.x - AddOffset(codec)) \in I64
             THEN /\ ~out.res.abort
                  /\ out.res.val = <<"Int", out.x - AddOffset(codec)>>
                  /\ out.res.val[2] + AddOffset(codec) = out.x
             ELSE \/ out.res.abort
                  \/ /\ out.res.val = <<"Int", Wrap(out.x - AddOffset(codec))>>
                     /\ out.res.val[2] # out.x - AddOffset(codec)
        ELSE IF SingleToI64(codec)
        THEN ~out.res.abort /\ out.res.val = <<"Int", out.x>>
        ELSE out.res.abort

C12_Witness ==
    /\ last = "encode_int" /\ origin = "integer_offset" /\ lz4s = 0
    /\ AddOffset(codec) = I64Max /\ out.x = 0 - 1
    /\ ~out.res.abort /\ out.res.val = <<"Int", I64Min>>

----------------------------------------------------------------------------
(* The query evaluator: values, expressions, aggregators *)

MaxRows == 2        \* longest column of a batch
MaxBatches == 2     \* longest batch list handed to run_batches

Null == <<"Null">>
Bool(b) == <<"Bool", b>>
Integer(i) == <<"Integer", i>>
Str(x) == <<"Str", x>>

ColName(name) == <<"ColName", name>>
Const(v) == <<"Const", v>>
Func(f, l, r) == <<"Func", f, l, r>>

\* Expr::add_colnames
RECURSIVE add_colnames(_)
add_colnames(e) ==
    CASE e[1] = "ColName" -> {e[2]}
      [] e[1] = "Const" -> {}
      [] e[1] = "Func" -> add_colnames(e[3]) \cup add_colnames(e[4])

\* the binary functions of a compiled expression on two values
Apply(f, a, b) ==
    CASE f = "And" -> IF a[1] = "Bool" /\ b[1] = "Bool" THEN Bool(a[2] /\ b[2])
                      ELSE Bool(FALSE)
      [] f = "LT" -> IF a[1] = "Integer" /\ b[1] = "Integer" THEN Bool(a[2] < b[2])
                     ELSE Bool(FALSE)
      [] f = "GT" -> IF a[1] = "Integer" /\ b[1] = "Integer" THEN Bool(a[2] > b[2])
                     ELSE Bool(FALSE)
      [] f = "Equals" -> Bool(a = b)
      [] f = "Add" -> IF a[1] = "Integer" /\ b[1] = "Integer" THEN Integer(a[2] + b[2])
                      ELSE Null

\* Expr::compile against column_indices, then Expr::eval on a record; a name
\* that is not bound to a column reads Null
RECURSIVE Eval(_, _, _)
Eval(e, column_indices, record) ==
    CASE e[1] = "ColName" ->
             IF e[2] \in DOMAIN column_indices
             THEN record[column_indices[e[2]]] ELSE Null
      [] e[1] = "Const" -> e[2]
      [] e[1] = "Func" -> Apply(e[2], Eval(e[3], column_indices, record),
                                Eval(e[4], column_indices, record))

\* Aggregator::zero and Aggregator::reduce
zero(agg) == Integer(0)
reduce(agg, acc, input) ==
    IF agg = "Count" THEN Integer(acc[2] + 1)
    ELSE Integer(acc[2] + (IF input[1] = "Integer" THEN input[2] ELSE 0))

----------------------------------------------------------------------------
(* Query: column resolution and result schema *)

RECURSIVE SeqUnion(_)
SeqUnion(sets) == IF sets = <<>> THEN {} ELSE Head(sets) \cup SeqUnion(Tail(sets))

find_referenced_cols(q) ==
    SeqUnion([i \in 1..Len(q.select) |-> add_colnames(q.select[i])])
    \cup add_colnames(q.filter)
    \cup SeqUnion([i \in 1..Len(q.aggregate) |-> add_colnames(q.aggregate[i][2])])

\* the filter of Query::run over source.cols
efficient_source(q, batch) ==
    SelectSeq(batch, LAMBDA col : col.name \in find_referenced_cols(q))

\* the HashMap of create_colname_map: a later column of a name overwrites
create_colname_map(src) ==
    [name \in {src[i].name : i \in 1..Len(src)} |->
        CHOOSE i \in 1..Len(src) :
            /\ src[i].name = name
            /\ \A j \in 1..Len(src) : src[j].name = name => j <= i]

\* select_cols with a counter that advances on every select expression
RECURSIVE select_cols_Positional(_, _)
select_cols_Positional(select, anon_columns) ==
    IF select = <<>> THEN <<>>
    ELSE IF Head(select)[1] = "ColName"
         THEN <<Head(select)[2]>> \o select_cols_Positional(Tail(select), anon_columns + 1)
         ELSE <<"col_" \o ToString(anon_columns + 1)>>
                  \o select_cols_Positional(Tail(select), anon_columns + 1)

\* the select_cols closure with its counter anon_columns
RECURSIVE select_cols(_, _)
select_cols(select, anon_columns) ==
    IF select = <<>> THEN <<>>
    ELSE IF Head(select)[1] = "ColName"
         THEN <<Head(select)[2]>> \o select_cols(Tail(select), anon_columns)
         ELSE <<"col_" \o ToString(anon_columns + 1)>>
                  \o select_cols(Tail(select), anon_columns + 1)

\* the aggregate_cols closure with its counter anon_aggregates
RECURSIVE aggregate_cols(_, _)
aggregate_cols(aggregate, anon_aggregates) ==
    IF aggregate = <<>> THEN <<>>
    ELSE <<(IF Head(aggregate)[1] = "Count" THEN "count_" ELSE "sum_")
              \o ToString(anon_aggregates + 1)>>
             \o aggregate_cols(Tail(aggregate), anon_aggregates + 1)

result_column_names(q) == select_cols(q.select, -1) \o aggregate_cols(q.aggregate, -1)

----------------------------------------------------------------------------
(* The row loops of run_select_query and run_aggregation_query *)

SetMin(S) == CHOOSE x \in S : \A y \in S : x <= y

\* the `for i in 0..source.len()` loop over source[i].next(): coliter[i] is the
\* number of items iterator i has yielded; the loop leaves at the first None
ReadRow(src, coliter) ==
    LET n == Len(src)
        exhausted == {i \in 1..n : coliter[i] >= Len(src[i].data)}
    IN  IF exhausted = {}
        THEN [some |-> TRUE,
              record |-> [i \in 1..n |-> src[i].data[coliter[i] + 1]],
              coliter |-> [i \in 1..n |-> coliter[i] + 1]]
        ELSE [some |-> FALSE,
              record |-> [i \in 1..(SetMin(exhausted) - 1) |-> src[i].data[coliter[i] + 1]],
              coliter |-> [i \in 1..n |->
                              IF i < SetMin(exhausted) THEN coliter[i] + 1 ELSE coliter[i]]]

Project(q, column_indices, record) ==
    [i \in 1..Len(q.select) |-> Eval(q.select[i], column_indices, record)]

LoopStart(src) ==
    [coliter |-> [i \in 1..Len(src) |-> 0],
     rows_touched |-> 0,
     result |-> <<>>,
     groups |-> <<>>,
     exit |-> FALSE]

\* select_iteration with a filter test that lets every value but Bool(false) pass
select_iteration_NotFalse(q, src, st) ==
    LET rd == ReadRow(src, st.coliter)
        column_indices == create_colname_map(src)
    IN  IF ~rd.some
        THEN [st EXCEPT !.coliter = rd.coliter, !.exit = TRUE]
        ELSE [st EXCEPT
                 !.coliter = rd.coliter,
                 !.result = IF Eval(q.filter, column_indices, rd.record) # <<"Bool", FALSE>>
                            THEN Append(st.result, Project(q, column_indices, rd.record))
                            ELSE st.result,
                 !.rows_touched = st.rows_touched + 1]

\* select_iteration that counts a row only when it is emitted
select_iteration_CountsEmitted(q, src, st) ==
    LET rd == ReadRow(src, st.coliter)
        column_indices == create_colname_map(src)
        pass == Eval(q.filter, column_indices, rd.record) = <<"Bool", TRUE>>
    IN  IF ~rd.some
        THEN [st EXCEPT !.coliter = rd.coliter, !.exit = TRUE]
        ELSE [st EXCEPT
                 !.coliter = rd.coliter,
                 !.result = IF pass
                            THEN Append(st.result, Project(q, column_indices, rd.record))
                            ELSE st.result,
                 !.rows_touched = IF pass THEN st.rows_touched + 1 ELSE st.rows_touched]

\* one iteration of the loop of run_select_query
select_iteration(q, src, st) ==
    LET rd == ReadRow(src, st.coliter)
        column_indices == create_colname_map(src)
    IN  IF ~rd.some
        THEN [st EXCEPT !.coliter = rd.coliter, !.exit = TRUE]
        ELSE [st EXCEPT
                 !.coliter = rd.coliter,
                 !.result = IF Eval(q.filter, column_indices, rd.record) = Bool(TRUE)
                            THEN Append(st.result, Project(q, column_indices, rd.record))
                            ELSE st.result,
                 !.rows_touched = st.rows_touched + 1]

\* groups.entry(group).or_insert(zeros), then the reduce of every accumulator
UpdateGroups(q, groups, group, column_indices, record) ==
    LET old == IF group \in DOMAIN groups THEN groups[group]
               ELSE [i \in 1..Len(q.aggregate) |-> zero(q.aggregate[i][1])]
        acc == [i \in 1..Len(q.aggregate) |->
                   reduce(q.aggregate[i][1], old[i],
                          Eval(q.aggregate[i][2], column_indices, record))]
    IN  [g \in DOMAIN groups \cup {group} |-> IF g = group THEN acc ELSE groups[g]]

\* aggregation_iteration with groups.insert(group, zeros) in place of
\* entry().or_insert(): every passing row starts its group afresh
aggregation_iteration_Reinsert(q, src, st) ==
    LET rd == ReadRow(src, st.coliter)
        column_indices == create_colname_map(src)
        group == Project(q, column_indices, rd.record)
        fresh == [g \in DOMAIN st.groups \ {group} |-> st.groups[g]]
        groups == IF Eval(q.filter, column_indices, rd.record) = <<"Bool", TRUE>>
                  THEN UpdateGroups(q, fresh, group, column_indices, rd.record)
                  ELSE st.groups
    IN  IF ~rd.some
        THEN [st EXCEPT !.coliter = rd.coliter, !.exit = TRUE]
        ELSE IF Len(src) = 0
        THEN [st EXCEPT !.coliter = rd.coliter, !.groups = groups, !.exit = TRUE]
        ELSE [st EXCEPT !.coliter = rd.coliter, !.groups = groups,
                        !.rows_touched = st.rows_touched + 1]

\* aggregation_iteration without `if source.len() == 0 { break }`
aggregation_iteration_NoEmptyBreak(q, src, st) ==
    LET rd == ReadRow(src, st.coliter)
        column_indices == create_colname_map(src)
        group == Project(q, column_indices, rd.record)
        groups == IF Eval(q.filter, column_indices, rd.record) = <<"Bool", TRUE>>
                  THEN UpdateGroups(q, st.groups, group, column_indices, rd.record)
                  ELSE st.groups
    IN  IF ~rd.some
        THEN [st EXCEPT !.coliter = rd.coliter, !.exit = TRUE]
        ELSE [st EXCEPT !.coliter = rd.coliter, !.groups = groups,
                        !.rows_touched = st.rows_touched + 1]

\* one iteration of the 'outer loop of run_aggregation_query
aggregation_iteration(q, src, st) ==
    LET rd == ReadRow(src, st.coliter)
        column_indices == create_colname_map(src)
        group == Project(q, column_indices, rd.record)
        groups == IF Eval(q.filter, column_indices, rd.record) = Bool(TRUE)
                  THEN UpdateGroups(q, st.groups, group, column_indices, rd.record)
                  ELSE st.groups
    IN  IF ~rd.some
        THEN [st EXCEPT !.coliter = rd.coliter, !.exit = TRUE]
        ELSE IF Len(src) = 0
        THEN [st EXCEPT !.coliter = rd.coliter, !.groups = groups, !.exit = TRUE]
        ELSE [st EXCEPT !.coliter = rd.coliter, !.groups = groups,
                        !.rows_touched = st.rows_touched + 1]

\* the orders in which `for (group, aggregate) in groups` can visit a HashMap
Orders(S) ==
    {f \in [1..Cardinality(S) -> S] : \A i, j \in 1..Cardinality(S) : f[i] = f[j] => i = j}

\* impl Add for QueryStats
stats_add_ScannedOnly(a, b) ==
    [runtime_ns |-> a.runtime_ns, rows_scanned |-> a.rows_scanned + b.rows_scanned]

stats_add(a, b) ==
    [runtime_ns |-> a.runtime_ns + b.runtime_ns,
     rows_scanned |-> a.rows_scanned + b.rows_scanned]

----------------------------------------------------------------------------
(* The queries and batches the model runs *)

Urls == {Str("/"), Str("/x")}
Loadtimes == {Integer(1), Integer(2)}
Runtimes == {1, 2}      \* precise_time_ns() differences a run can measure

url == ColName("url")
loadtime == ColName("loadtime")
doesntexist == ColName("doesntexist")
True == Const(Bool(TRUE))

Query(select, filter, aggregate) ==
    [select |-> select, filter |-> filter, aggregate |-> aggregate]

Queries ==
    {Query(<<url>>,
           Func("And", Func("LT", loadtime, Const(Integer(2))),
                       Func("Equals", url, Const(Str("/")))), <<>>),
     Query(<<loadtime, Func("Add", loadtime, Const(Integer(1)))>>,
           Func("Equals", url, Const(Str("/"))), <<>>),
     Query(<<url>>, loadtime, <<>>),
     Query(<<doesntexist>>, True, <<>>),
     Query(<<url>>, True, <<<<"Count", Const(Integer(0))>>>>),
     Query(<<url>>, True, <<<<"Sum", loadtime>>>>),
     Query(<<loadtime>>, Func("GT", loadtime, Const(Integer(1))),
           <<<<"Count", Const(Integer(0))>>>>),
     Query(<<Func("Add", loadtime, Const(Integer(1))), url, Const(Integer(1))>>,
           Func("LT", loadtime, Const(Integer(2))),
           <<<<"Sum", loadtime>>, <<"Count", Const(Integer(0))>>, <<"Sum", url>>>>),
     Query(<<>>, True, <<<<"Sum", doesntexist>>>>),
     Query(<<>>, True, <<<<"Count", Const(Integer(0))>>>>),
     Query(<<>>, doesntexist, <<<<"Count", Const(Integer(0))>>>>)}

SeqsUpTo(S, n) == UNION {[1..k -> S] : k \in 0..n}

Column(name, data) == [name |-> name, data |-> data]

\* a batch on its own: the two columns vary independently, also in length
Batches ==
    {<<Column("url", u), Column("loadtime", l)>> :
        u \in SeqsUpTo(Urls, MaxRows), l \in SeqsUpTo(Loadtimes, MaxRows)}

\* a table of at most MaxRows rows split over several batches: equal-length
\* columns built from two rows
RowPool == {<<Str("/"), Integer(1)>>, <<Str("/x"), Integer(2)>>}
PoolBatches ==
    {<<Column("url", [i \in 1..Len(rows) |-> rows[i][1]]),
       Column("loadtime", [i \in 1..Len(rows) |-> rows[i][2]])>> :
        rows \in SeqsUpTo(RowPool, MaxRows)}

TotalRows(bs) == SumSeq([b \in 1..Len(bs) |-> Len(bs[b][1].data)])

BatchLists ==
    {<<b>> : b \in Batches}
    \cup {bs \in SeqsUpTo(PoolBatches, MaxBatches) : TotalRows(bs) <= MaxRows}

----------------------------------------------------------------------------
(* run_batches and run as actions *)

QueryInit ==
    /\ query \in Queries
    /\ batches \in BatchLists
    /\ pc = "batches"
    /\ bi = 0
    /\ source = <<>>
    /\ loop = LoopStart(<<>>)
    /\ combined = [rows |-> <<>>, stats |-> [runtime_ns |-> 0, rows_scanned |-> 0]]
    /\ runs = <<>>
    /\ final = NoOut
    /\ codec = "none" /\ plan = "none" /\ origin = "none"
    /\ lz4s = 0 /\ last = "none" /\ out = NoOut

\* `for batch in batches`: run_batches calls run, which resolves the columns,
\* opens the iterators and enters run_select_query or run_aggregation_query
RunBegin ==
    /\ pc = "batches"
    /\ bi < Len(batches)
    /\ bi' = bi + 1
    /\ source' = efficient_source(query, batches[bi + 1])
    /\ loop' = LoopStart(source')
    /\ pc' = IF Len(query.aggregate) = 0
             THEN (IF Len(source') = 0 THEN "return" ELSE "select")
             ELSE "aggregation"
    /\ UNCHANGED <<query, batches, combined, runs, final>>
    /\ UNCHANGED cvars

SelectIteration ==
    /\ pc = "select"
    /\ loop' = select_iteration(query, source, loop)
    /\ pc' = IF loop'.exit THEN "return" ELSE "select"
    /\ UNCHANGED <<query, batches, bi, source, combined, runs, final>>
    /\ UNCHANGED cvars

AggregationIteration ==
    /\ pc = "aggregation"
    /\ loop' = aggregation_iteration(query, source, loop)
    /\ pc' = IF loop'.exit THEN "emit" ELSE "aggregation"
    /\ UNCHANGED <<query, batches, bi, source, combined, runs, final>>
    /\ UNCHANGED cvars

\* the tail of run_aggregation_query: one row per entry of groups
EmitGroups ==
    /\ pc = "emit"
    /\ \E order \in Orders(DOMAIN loop.groups) :
           loop' = [loop EXCEPT !.result =
                       [i \in 1..Len(order) |-> order[i] \o loop.groups[order[i]]]]
    /\ pc' = "return"
    /\ UNCHANGED <<query, batches, bi, source, combined, runs, final>>
    /\ UNCHANGED cvars

\* run builds its QueryResult; run_batches extends combined_rows with its
\* rows and adds its stats
RunReturn ==
    /\ pc = "return"
    /\ \E runtime_ns \in Runtimes :
           LET stats == [runtime_ns |-> runtime_ns, rows_scanned |-> loop.rows_touched]
           IN  /\ runs' = Append(runs, [colnames |-> result_column_names(query),
                                        rows |-> loop.result,
                                        stats |-> stats])
               /\ combined' = [rows |-> combined.rows \o loop.result,
                               stats |-> stats_add(combined.stats, stats)]
    /\ pc' = "batches"
    /\ UNCHANGED <<query, batches, bi, source, loop, final>>
    /\ UNCHANGED cvars

BatchesReturn ==
    /\ pc = "batches"
    /\ bi = Len(batches)
    /\ pc' = "done"
    /\ final' = [colnames |-> result_column_names(query),
                 rows |-> combined.rows,
                 stats |-> combined.stats]
    /\ UNCHANGED <<query, batches, bi, source, loop, combined, runs>>
    /\ UNCHANGED cvars

QueryNext ==
    \/ RunBegin
    \/ SelectIteration
    \/ AggregationIteration
    \/ EmitGroups
    \/ RunReturn
    \/ BatchesReturn

QuerySpec == QueryInit /\ [][QueryNext]_vars

\* run and run_batches are straight-line sequential code: the thread that
\* called them keeps executing while a step remains.
FairQuerySpec == QueryInit /\ [][QueryNext]_vars /\ WF_vars(QueryNext)

----------------------------------------------------------------------------
(* Claims about the query evaluator, checked under QuerySpec *)

MinLength(src) == SetMin({Len(src[i].data) : i \in 1..Len(src)})

\* the complete rows of the selected columns, in row order
ScannedRecords(src) ==
    IF Len(src) = 0 THEN <<>>
    ELSE [r \in 1..MinLength(src) |-> [i \in 1..Len(src) |-> src[i].data[r]]]

Passes(q, src, record) == Eval(q.filter, create_colname_map(src), record) = Bool(TRUE)

PassingRecords(q, src) ==
    SelectSeq(ScannedRecords(src), LAMBDA record : Passes(q, src, record))

KeyOf(q, src, record) == Project(q, create_colname_map(src), record)

\* what one passing record adds to the accumulator of aggregate a
Contribution(a, src, record) ==
    IF a[1] = "Count" THEN 1
    ELSE LET v == Eval(a[2], create_colname_map(src), record)
         IN  IF v[1] = "Integer" THEN v[2] ELSE 0

\* the aggregate a over the records of a group
RECURSIVE GroupTotal(_, _, _, _, _)
GroupTotal(q, a, src, records, key) ==
    IF records = <<>> THEN 0
    ELSE (IF KeyOf(q, src, Head(records)) = key THEN Contribution(a, src, Head(records))
          ELSE 0) + GroupTotal(q, a, src, Tail(records), key)

GroupKeys(q, src) ==
    {KeyOf(q, src, PassingRecords(q, src)[r]) : r \in 1..Len(PassingRecords(q, src))}

RowKey(q, row) == SubSeq(row, 1, Len(q.select))

\* C3: an aggregate query none of whose referenced columns is in the batch
\* (no iterator is opened) returns no rows and rows_scanned = 0.
C3_NoColumnsNoRows ==
    (pc = "return" /\ Len(query.aggregate) > 0 /\ Len(source) = 0) =>
        /\ loop.result = <<>>
        /\ loop.rows_touched = 0

\* the aggregate a of a group over every batch of the list
RECURSIVE AllBatchesTotal(_, _, _, _)
AllBatchesTotal(q, a, bs, key) ==
    IF bs = <<>> THEN 0
    ELSE LET src == efficient_source(q, Head(bs))
         IN  GroupTotal(q, a, src, PassingRecords(q, src), key)
                 + AllBatchesTotal(q, a, Tail(bs), key)

\* C4: run_batches of an aggregate query merges groups across batches: at
\* most one result row per group key, each holding the aggregate over the
\* passing rows of that group in all batches.
C4_GroupsMergedAcrossBatches ==
    (pc = "done" /\ Len(query.aggregate) > 0) =>
        /\ \A i, j \in 1..Len(final.rows) :
               RowKey(query, final.rows[i]) = RowKey(query, final.rows[j]) => i = j
        /\ \A i \in 1..Len(final.rows) :
               final.rows[i] = RowKey(query, final.rows[i]) \o
                   [k \in 1..Len(query.aggregate) |->
                       Integer(AllBatchesTotal(query, query.aggregate[k], batches,
                                               RowKey(query, final.rows[i])))]

RECURSIVE ConcatRows(_)
ConcatRows(results) ==
    IF results = <<>> THEN <<>> ELSE Head(results).rows \o ConcatRows(Tail(results))

C6_RowsScannedCountsCompleteRows ==
    (pc \in {"select", "aggregation", "emit", "return"} /\ Len(source) >= 1) =>
        /\ loop.rows_touched = SetMin({loop.coliter[i] : i \in 1..Len(source)})
        /\ \A i \in 1..Len(source) : loop.coliter[i] <= loop.rows_touched + 1
        /\ loop.rows_touched <= MinLength(source)
        /\ pc \in {"select", "aggregation"} =>
               \A i \in 1..Len(source) : loop.coliter[i] = loop.rows_touched
        /\ pc \in {"emit", "return"} => loop.rows_touched = MinLength(source)

C6_Witness ==
    /\ pc = "return"
    /\ Len(source) = 2
    /\ Len(source[2].data) < Len(source[1].data)
    /\ loop.rows_touched = Len(source[2].data)
    /\ loop.coliter[1] = loop.rows_touched + 1
    /\ loop.rows_touched >= 1
    /\ Len(loop.result) < loop.rows_touched

\* C7: without aggregates run returns the projections (one value per select
\* expression, in select order) of the scanned rows whose filter is
\* Bool(true), in row order; any other filter value skips the row.
C7_SelectProjectsPassingRows ==
    (pc = "return" /\ Len(query.aggregate) = 0) =>
        loop.result =
            [r \in 1..Len(PassingRecords(query, source)) |->
                KeyOf(query, source, PassingRecords(query, source)[r])]

C7_Witness ==
    /\ pc = "return"
    /\ Len(query.aggregate) = 0
    /\ loop.rows_touched = 2
    /\ Len(loop.result) = 1
    /\ Len(loop.result[1]) = 2
    /\ ~Passes(query, source, ScannedRecords(source)[1])

\* C8: with aggregates and at least one selected column run returns exactly
\* one row per group key among the scanned rows that pass the filter: the key
\* followed by one accumulator per aggregate, Count the number of passing
\* rows of the group and Sum the sum of the aggregate expression over them.
C8_OneRowPerGroup ==
    (pc = "return" /\ Len(query.aggregate) > 0 /\ Len(source) >= 1) =>
        /\ Len(loop.result) = Cardinality(GroupKeys(query, source))
        /\ \A key \in GroupKeys(query, source) :
               \E i \in 1..Len(loop.result) :
                   loop.result[i] = key \o
                       [k \in 1..Len(query.aggregate) |->
                           Integer(GroupTotal(query, query.aggregate[k], source,
                                              PassingRecords(query, source), key))]

C8_Witness ==
    /\ pc = "return"
    /\ Len(query.aggregate) = 3
    /\ Len(source) = 2
    /\ loop.rows_touched = 2
    /\ loop.result = <<<<Integer(2), Str("/"), Integer(1), Integer(2), Integer(2), Integer(0)>>>>

\* the number of select expressions before position i that are no bare column
AnonBefore(q, i) == Cardinality({j \in 1..(i - 1) : q.select[j][1] # "ColName"})

ExpectedColumnNames(q) ==
    [i \in 1..(Len(q.select) + Len(q.aggregate)) |->
        IF i <= Len(q.select)
        THEN (IF q.select[i][1] = "ColName" THEN q.select[i][2]
              ELSE "col_" \o ToString(AnonBefore(q, i)))
        ELSE (IF q.aggregate[i - Len(q.select)][1] = "Count" THEN "count_" ELSE "sum_")
                 \o ToString(i - Len(q.select) - 1)]

\* C9: the result column names of run and of run_batches are the select
\* names (a bare column its own name, the j-th other expression col_j) followed
\* by count_k or sum_k for the aggregate at position k, select.length +
\* aggregate.length names in all.
C9_ResultColumnNames ==
    /\ \A i \in 1..Len(runs) :
           /\ runs[i].colnames = ExpectedColumnNames(query)
           /\ Len(runs[i].colnames) = Len(query.select) + Len(query.aggregate)
    /\ pc = "done" =>
           /\ final.colnames = ExpectedColumnNames(query)
           /\ Len(final.colnames) = Len(query.select) + Len(query.aggregate)

C9_Witness ==
    /\ pc = "done"
    /\ Len(runs) >= 1
    /\ final.colnames = <<"col_0", "url", "col_1", "sum_0", "count_1", "sum_2">>

----------------------------------------------------------------------------
(* Termination of run, checked under FairQuerySpec *)

InLoop == pc \in {"select", "aggregation", "emit"}

\* with zero iterators run_select_query returns before its loop
SelectReturnsImmediately ==
    (pc = "batches" /\ pc' # "done" /\ Len(query.aggregate) = 0 /\ Len(source') = 0)
        => (pc' = "return" /\ loop'.result = <<>> /\ loop'.rows_touched = 0)

\* with zero iterators the first execution of the body of the 'outer loop
\* leaves the loop
AggregateBodyOnce ==
    (pc = "aggregation" /\ Len(source) = 0)
        => (pc' = "emit" /\ loop'.exit /\ loop'.rows_touched = 0)

\* C13: Query.run on finite columns always terminates on both paths: every
\* entered row loop reaches run's return. With zero iterators the select
\* loop is never entered (run_select_query returns at once with no rows and
\* no rows touched) and the aggregate loop executes its body at most once
\* before leaving.
C13_RunTerminates ==
    /\ [](pc = "select" => Len(source) > 0)
    /\ [][SelectReturnsImmediately]_vars
    /\ [][AggregateBodyOnce]_vars
    /\ InLoop ~> (pc = "return")
    /\ <>(pc = "done")

C13_Witness ==
    /\ pc = "done" /\ Len(batches) = 2 /\ Len(runs) = 2
    /\ Len(query.aggregate) > 0 /\ source = <<>>
    /\ \A i \in 1..2 : Len(runs[i].rows) = 1 /\ runs[i].stats.rows_scanned = 0

====
